---- MODULE Spec2Model ----
(***************************************************************************)
(* finsight-lite: the document-analysis request pipeline of ai_engine.py   *)
(* (analyze_document_with_gemini) and the page-range parser of app.py      *)
(* (parse_page_selection).                                                 *)
(*                                                                         *)
(* Spec      : one invocation of analyze_document_with_gemini, one step    *)
(*             per remote request, the remote service as nondeterminism.   *)
(* LiveSpec  : Spec with the fairness of a running thread.                 *)
(* SpecParse : parse_page_selection applied to every bounded input.        *)
(***************************************************************************)
EXTENDS Integers, Sequences, FiniteSets, TLC

VARIABLES
    gemini_configured,  \* st.session_state['gemini_configured']
    accepts,            \* remote service: model identifiers whose generation request succeeds
    pc,                 \* position of the call
    file_ref,           \* the local file_ref (NoRef while not in locals())
    response,           \* the local response (NoResponse while unset)
    e,                  \* the exception being handled ("" while none)
    uploads,            \* upload_file requests issued
    polls,              \* get_file requests issued (saturates at MaxPolls)
    generations,        \* model identifiers of the generate_content requests issued
    deletes,            \* delete_file requests issued
    failed,             \* remote operations that raised
    result,             \* what the caller receives
    selection_str,      \* parse_page_selection: argument, a sequence of characters
    max_pages,          \* parse_page_selection: argument
    ppc,                \* parse_page_selection: "call" or "done"
    parsed,             \* parse_page_selection: return value
    st_error            \* parse_page_selection: st.error was shown

analyzerVars == <<gemini_configured, accepts, pc, file_ref, response, e, uploads,
                  polls, generations, deletes, failed, result>>
parserVars == <<selection_str, max_pages, ppc, parsed, st_error>>
vars == <<analyzerVars, parserVars>>

----------------------------------------------------------------------------
(* Bounds *)

MaxPolls == 3
MaxLen == 5
MaxPages == 3

----------------------------------------------------------------------------
(* ai_engine.py *)

model_name == "gemini-2.5-flash"
SecondaryModel == "secondary-identifier"
ModelIds == {model_name, SecondaryModel}

FileStates == {"PROCESSING", "ACTIVE", "FAILED"}
NoRef == [bound |-> FALSE, state |-> ""]
FileRef(s) == [bound |-> TRUE, state |-> s]

BlockReasons == {"", "SAFETY"}
NoResponse == [set |-> FALSE, text |-> "", block_reason |-> "", text_raises |-> FALSE]
Responses == [set : {TRUE}, text : {"", "{json}"}, block_reason : BlockReasons,
              text_raises : BOOLEAN]

\* json.dumps({"error": ...}) and the raw response text, as the caller sees them
NoResult == [error_key |-> FALSE, body |-> <<>>]
JsonError(parts) == [error_key |-> TRUE, body |-> parts]
RawText(t) == [error_key |-> FALSE, body |-> <<t>>]

NotConfiguredError == JsonError(<<"Gemini API is not configured.">>)
StateError(s) == JsonError(<<"File processing failed on the API side. State: ", s>>)
BlockedError(r) == JsonError(<<"AI Blocked Request: ", r>>)
EmptyError == JsonError(<<"AI returned an empty response. Try simplifying the prompt or file.">>)
UnexpectedError(x) == JsonError(<<"An unexpected error occurred during API call: ", x>>)

Bump(n) == IF n < MaxPolls THEN n + 1 ELSE n

NoneValue == [none |-> TRUE, pages |-> <<>>]
ListValue(l) == [none |-> FALSE, pages |-> l]

InitParserIdle ==
    /\ selection_str = <<>>
    /\ max_pages = 0
    /\ ppc = "idle"
    /\ parsed = NoneValue
    /\ st_error = FALSE

Init ==
    /\ gemini_configured \in BOOLEAN
    /\ accepts \in [ModelIds -> BOOLEAN]
    /\ pc = "start"
    /\ file_ref = NoRef
    /\ response = NoResponse
    /\ e = ""
    /\ uploads = 0
    /\ polls = 0
    /\ generations = <<>>
    /\ deletes = 0
    /\ failed = {}
    /\ result = NoResult
    /\ InitParserIdle

\* lines 38-39: the configuration guard
CheckConfigured ==
    /\ pc = "start"
    /\ IF gemini_configured
         THEN /\ pc' = "upload"
              /\ result' = result
         ELSE /\ pc' = "returned"
              /\ result' = NotConfiguredError
    /\ UNCHANGED <<gemini_configured, accepts, file_ref, response, e, uploads, polls,
                   generations, deletes, failed, parserVars>>

\* line 46: genai.upload_file
UploadFile ==
    /\ pc = "upload"
    /\ uploads' = uploads + 1
    /\ \/ \E s \in FileStates :
            /\ file_ref' = FileRef(s)
            /\ pc' = "poll"
            /\ UNCHANGED <<e, failed>>
       \/ /\ e' = "upload_file"
          /\ failed' = failed \cup {"upload_file"}
          /\ pc' = "handler"
          /\ file_ref' = file_ref
    /\ UNCHANGED <<gemini_configured, accepts, response, polls, generations, deletes,
                   result, parserVars>>

\* lines 49-51: one turn of the polling loop
PollWhileNotActive(s) == s # "ACTIVE"
PollWhile(s) == s = "PROCESSING"
GetFile ==
    /\ pc = "poll"
    /\ PollWhile(file_ref.state)
    /\ polls' = Bump(polls)
    /\ \/ \E s \in FileStates :
            /\ file_ref' = FileRef(s)
            /\ pc' = "poll"
            /\ UNCHANGED <<e, failed>>
       \/ /\ e' = "get_file"
          /\ failed' = failed \cup {"get_file"}
          /\ pc' = "handler"
          /\ file_ref' = file_ref
    /\ UNCHANGED <<gemini_configured, accepts, response, uploads, generations, deletes,
                   result, parserVars>>

\* lines 53-55: the handle left PROCESSING in a state other than ACTIVE
DeleteNotActive ==
    /\ pc = "poll"
    /\ ~PollWhile(file_ref.state)
    /\ file_ref.state # "ACTIVE"
    /\ deletes' = deletes + 1
    /\ \/ /\ result' = StateError(file_ref.state)
          /\ pc' = "returned"
          /\ UNCHANGED <<e, failed>>
       \/ /\ e' = "delete_file"
          /\ failed' = failed \cup {"delete_file"}
          /\ pc' = "handler"
          /\ result' = result
    /\ UNCHANGED <<gemini_configured, accepts, file_ref, response, uploads, polls,
                   generations, parserVars>>

\* lines 77-78: genai.GenerativeModel(model_name).generate_content
GenerateContent ==
    /\ pc = "poll"
    /\ ~PollWhile(file_ref.state)
    /\ file_ref.state = "ACTIVE"
    /\ generations' = Append(generations, model_name)
    /\ IF accepts[model_name]
         THEN /\ response' \in Responses
              /\ pc' = "cleanup"
              /\ UNCHANGED <<e, failed>>
         ELSE /\ e' = "generate_content"
              /\ failed' = failed \cup {"generate_content"}
              /\ pc' = "handler"
              /\ response' = response
    /\ UNCHANGED <<gemini_configured, accepts, file_ref, uploads, polls, deletes,
                   result, parserVars>>

\* line 81: the cleanup before the response is read
DeleteAfterGenerate ==
    /\ pc = "cleanup"
    /\ deletes' = deletes + 1
    /\ \/ /\ pc' = "read"
          /\ UNCHANGED <<e, failed>>
       \/ /\ e' = "delete_file"
          /\ failed' = failed \cup {"delete_file"}
          /\ pc' = "handler"
    /\ UNCHANGED <<gemini_configured, accepts, file_ref, response, uploads, polls,
                   generations, result, parserVars>>

\* lines 84-90: response.text, the block reason, the empty response
TextResult(r) ==
    IF r.text = ""
      THEN IF r.block_reason # "" THEN BlockedError(r.block_reason) ELSE EmptyError
      ELSE RawText(r.text)
ReadResponse ==
    /\ pc = "read"
    /\ IF response.text_raises
         THEN /\ e' = "response.text"
              /\ pc' = "handler"
              /\ result' = result
         ELSE /\ result' = TextResult(response)
              /\ pc' = "returned"
              /\ e' = e
    /\ UNCHANGED <<gemini_configured, accepts, file_ref, response, uploads, polls,
                   generations, deletes, failed, parserVars>>

\* lines 92-96: except Exception
HandlerNeverDeletes(ref) == FALSE
HandlerDeletes(ref) == ref.bound
ExceptHandler ==
    /\ pc = "handler"
    /\ IF HandlerDeletes(file_ref)
         THEN /\ deletes' = deletes + 1
              /\ \/ /\ result' = UnexpectedError(e)
                    /\ pc' = "returned"
                    /\ failed' = failed
                 \/ /\ failed' = failed \cup {"delete_file"}
                    /\ pc' = "raised"
                    /\ result' = result
         ELSE /\ result' = UnexpectedError(e)
              /\ pc' = "returned"
              /\ UNCHANGED <<deletes, failed>>
    /\ UNCHANGED <<gemini_configured, accepts, file_ref, response, e, uploads, polls,
                   generations, parserVars>>

Next ==
    \/ CheckConfigured
    \/ UploadFile
    \/ GetFile
    \/ DeleteNotActive
    \/ GenerateContent
    \/ DeleteAfterGenerate
    \/ ReadResponse
    \/ ExceptHandler

Spec == Init /\ [][Next]_vars

LiveSpec == Init /\ [][Next]_vars /\ WF_vars(Next)

Finished == pc \in {"returned", "raised"}

----------------------------------------------------------------------------
(* app.py: parse_page_selection *)

Chars == {"0", "1", "2", "-", ",", " ", "x"}
Digits == {"0", "1", "2", "3", "4", "5", "6", "7", "8", "9"}
DigitValue(c) ==
    CASE c = "0" -> 0 [] c = "1" -> 1 [] c = "2" -> 2 [] c = "3" -> 3 [] c = "4" -> 4
      [] c = "5" -> 5 [] c = "6" -> 6 [] c = "7" -> 7 [] c = "8" -> 8 [] c = "9" -> 9

\* str.strip()
RECURSIVE LStrip(_)
LStrip(s) == IF s # <<>> /\ Head(s) = " " THEN LStrip(Tail(s)) ELSE s
RECURSIVE RStrip(_)
RStrip(s) == IF s # <<>> /\ s[Len(s)] = " " THEN RStrip(SubSeq(s, 1, Len(s) - 1)) ELSE s
Strip(s) == RStrip(LStrip(s))

\* c in s
Contains(s, c) == \E i \in 1..Len(s) : s[i] = c

\* str.split(sep): at least one piece, empty pieces kept
RECURSIVE Split(_, _)
Split(s, sep) ==
    IF ~Contains(s, sep)
      THEN <<s>>
      ELSE LET i == CHOOSE k \in 1..Len(s) :
                        s[k] = sep /\ \A j \in 1..(k - 1) : s[j] # sep
           IN  <<SubSeq(s, 1, i - 1)>> \o Split(SubSeq(s, i + 1, Len(s)), sep)

\* int(s): surrounding whitespace and one leading minus sign allowed, then decimal digits
Unsigned(t) == IF t # <<>> /\ Head(t) = "-" THEN Tail(t) ELSE t
IntParses(s) ==
    LET d == Unsigned(Strip(s))
    IN  d # <<>> /\ \A i \in 1..Len(d) : d[i] \in Digits
RECURSIVE DecimalValue(_)
DecimalValue(d) ==
    IF d = <<>> THEN 0
    ELSE 10 * DecimalValue(SubSeq(d, 1, Len(d) - 1)) + DigitValue(d[Len(d)])
IntValue(s) ==
    LET t == Strip(s)
    IN  IF t # <<>> /\ Head(t) = "-" THEN 0 - DecimalValue(Tail(t)) ELSE DecimalValue(t)

\* line 32: range(start - 1, end)
RangePagesExclusive(start, end) == (start - 1)..(end - 2)
RangePages(start, end) == (start - 1)..(end - 1)

\* lines 28-34: the pages one part adds, or the ValueError it raises
ValueError == [ok |-> FALSE, pages |-> {}]
PartPagesSkipBad(part) ==
    LET p == Strip(part)
    IN  IF Contains(p, "-")
          THEN LET sides == Split(p, "-")
               IN  IF Len(sides) = 2 /\ IntParses(sides[1]) /\ IntParses(sides[2])
                     THEN [ok |-> TRUE,
                           pages |-> RangePages(IntValue(sides[1]), IntValue(sides[2]))]
                     ELSE [ok |-> TRUE, pages |-> {}]
          ELSE IF IntParses(p)
                 THEN [ok |-> TRUE, pages |-> {IntValue(p) - 1}]
                 ELSE [ok |-> TRUE, pages |-> {}]
PartPages(part) ==
    LET p == Strip(part)
    IN  IF Contains(p, "-")
          THEN LET sides == Split(p, "-")
               IN  IF Len(sides) = 2 /\ IntParses(sides[1]) /\ IntParses(sides[2])
                     THEN [ok |-> TRUE,
                           pages |-> RangePages(IntValue(sides[1]), IntValue(sides[2]))]
                     ELSE ValueError
          ELSE IF IntParses(p)
                 THEN [ok |-> TRUE, pages |-> {IntValue(p) - 1}]
                 ELSE ValueError

\* lines 24-35: the loop over the parts, left at the first ValueError
RECURSIVE SelectPages(_, _)
SelectPages(parts, selected_pages) ==
    IF parts = <<>>
      THEN [ok |-> TRUE, pages |-> selected_pages]
      ELSE LET r == PartPages(Head(parts))
           IN  IF r.ok
                 THEN SelectPages(Tail(parts), selected_pages \cup r.pages)
                 ELSE ValueError

\* sorted(...)
RECURSIVE Sorted(_)
Sorted(S) ==
    IF S = {} THEN <<>>
    ELSE LET m == CHOOSE x \in S : \A y \in S : x <= y
         IN  <<m>> \o Sorted(S \ {m})

\* line 40: the bounds filter
InBounds(p, n) == 0 <= p /\ p < n

\* lines 17-41
ParseResult(str, n) ==
    IF Strip(str) = <<>>
      THEN [value |-> NoneValue, error |-> FALSE]
      ELSE LET r == SelectPages(Split(str, ","), {})
           IN  IF r.ok
                 THEN [value |-> ListValue(Sorted({p \in r.pages : InBounds(p, n)})),
                       error |-> FALSE]
                 ELSE [value |-> NoneValue, error |-> TRUE]

Strings == UNION {[1..n -> Chars] : n \in 0..MaxLen}

InitAnalyzerIdle ==
    /\ gemini_configured = FALSE
    /\ accepts = [m \in ModelIds |-> FALSE]
    /\ pc = "idle"
    /\ file_ref = NoRef
    /\ response = NoResponse
    /\ e = ""
    /\ uploads = 0
    /\ polls = 0
    /\ generations = <<>>
    /\ deletes = 0
    /\ failed = {}
    /\ result = NoResult

InitParse ==
    /\ selection_str \in Strings
    /\ max_pages \in 0..MaxPages
    /\ ppc = "call"
    /\ parsed = NoneValue
    /\ st_error = FALSE
    /\ InitAnalyzerIdle

ParsePageSelection ==
    /\ ppc = "call"
    /\ LET r == ParseResult(selection_str, max_pages)
       IN  /\ parsed' = r.value
           /\ st_error' = r.error
    /\ ppc' = "done"
    /\ UNCHANGED <<selection_str, max_pages, analyzerVars>>

NextParse == ParsePageSelection

SpecParse == InitParse /\ [][NextParse]_vars

----------------------------------------------------------------------------
(* Properties of analyze_document_with_gemini *)

Uploaded == file_ref.bound
PrimaryFailed == "generate_content" \in failed
DeleteFailed == "delete_file" \in failed
PollingEndedNotActive == Uploaded /\ file_ref.state \notin {"PROCESSING", "ACTIVE"}

\* C1: once the upload has returned a handle, the call never finishes (by a
\* return or by an exception) without a delete_file request for the handle.
C1_CleanupAttempted == (Finished /\ Uploaded) => deletes >= 1

C1_Witness ==
    /\ pc = "returned"
    /\ Uploaded
    /\ failed = {"get_file"}
    /\ deletes = 1
    /\ result = UnexpectedError("get_file")

\* C2: a failing delete_file never changes what the caller receives: the text
\* of a successful generation, or the error payload of the earlier failure.
C2_DeleteFailureNeverMasks ==
    (Finished /\ DeleteFailed) =>
        /\ pc = "returned"
        /\ (response.set /\ response.text # "" /\ ~response.text_raises)
              => result = RawText(response.text)
        /\ PollingEndedNotActive => result = StateError(file_ref.state)
        /\ (e \notin {"", "delete_file"}) => result = UnexpectedError(e)

\* C3: when the request against the primary identifier fails and a request
\* against the secondary identifier would succeed, a second request is issued
\* and the caller receives the fallback's text, without an error field.
C3_FallbackUsed ==
    (Finished /\ PrimaryFailed /\ accepts[SecondaryModel]) =>
        /\ generations = <<model_name, SecondaryModel>>
        /\ pc = "returned"
        /\ ~result.error_key

\* C4: no exception escapes to the caller, and whenever a remote operation
\* failed the returned string is a JSON object with an "error" key.
C4_NoExceptionEscapes ==
    /\ pc # "raised"
    /\ (pc = "returned" /\ failed # {}) => result.error_key

\* C5: when polling ends in a state other than ACTIVE the handle's deletion
\* is requested, no generation is requested and the error payload carries the
\* state name; a generation is only requested while the state is ACTIVE.
C5_NotActiveReported ==
    /\ (Finished /\ PollingEndedNotActive) =>
          /\ deletes >= 1
          /\ generations = <<>>
          /\ pc = "returned"
          /\ result = StateError(file_ref.state)
    /\ generations # <<>> => file_ref.state = "ACTIVE"

\* C6: a response without text gives the error naming the block reason when
\* there is one and the generic empty-response error only when there is none;
\* an empty string is never returned as a success.
C6_EmptyOrBlocked ==
    /\ (Finished /\ response.set /\ response.text = "" /\ ~response.text_raises) =>
          /\ pc = "returned"
          /\ result = IF response.block_reason # ""
                        THEN BlockedError(response.block_reason)
                        ELSE EmptyError
    /\ (pc = "returned" /\ result = EmptyError) => response.block_reason = ""
    /\ pc = "returned" => result # RawText("")

\* C9: while the reported state is PROCESSING the call only re-fetches the
\* status (no generation, no deletion, no return), without any ceiling on the
\* number of fetches; it finishes only after the state left PROCESSING or a
\* fetch failed, and it does finish if the state does not stay PROCESSING.
Polling == pc = "poll" /\ file_ref.state = "PROCESSING"
PollStep ==
    Polling =>
        /\ polls' = Bump(polls)
        /\ generations' = generations
        /\ deletes' = deletes
        /\ result' = result
        /\ \/ pc' = "poll"
           \/ pc' = "handler" /\ e' = "get_file"
C10_AtMostOneDelete ==
    /\ deletes <= 1
    /\ (~gemini_configured \/ ~Uploaded) => deletes = 0

----------------------------------------------------------------------------
(* Properties of parse_page_selection *)

Blank == \A i \in 1..Len(selection_str) : selection_str[i] = " "
Tokens == LET parts == Split(selection_str, ",")
          IN  {Strip(parts[i]) : i \in 1..Len(parts)}
Dashes(t) == Cardinality({i \in 1..Len(t) : t[i] = "-"})
IsPageToken(t) == Dashes(t) = 0 /\ IntParses(t)
IsRangeToken(t) ==
    /\ Dashes(t) = 1
    /\ \E i \in 1..Len(t) :
          /\ t[i] = "-"
          /\ IntParses(SubSeq(t, 1, i - 1))
          /\ IntParses(SubSeq(t, i + 1, Len(t)))
RangeLow(t) == IntValue(SubSeq(t, 1, (CHOOSE i \in 1..Len(t) : t[i] = "-") - 1))
RangeHigh(t) == IntValue(SubSeq(t, (CHOOSE i \in 1..Len(t) : t[i] = "-") + 1, Len(t)))
Names(t, n) ==
    \/ IsPageToken(t) /\ IntValue(t) = n
    \/ IsRangeToken(t) /\ RangeLow(t) <= n /\ n <= RangeHigh(t)
AllTokensValid == \A t \in Tokens : IsPageToken(t) \/ IsRangeToken(t)
SomeTokenFailsInt ==
    \E t \in Tokens :
        IF Contains(t, "-")
          THEN LET sides == Split(t, "-")
               IN  \E i \in 1..Len(sides) : ~IntParses(sides[i])
          ELSE ~IntParses(t)
StrictlyAscending(l) == \A i \in 1..(Len(l) - 1) : l[i] < l[i + 1]
Elements(l) == {l[i] : i \in 1..Len(l)}

\* C7: for a non-blank expression of page and range tokens the result is the
\* strictly ascending list of the indices p in [0, max_pages) whose page p+1
\* a token names; a range a-b with a > b names nothing and does not fail.
C7_ExactSelection ==
    (ppc = "done" /\ ~Blank /\ AllTokensValid) =>
        /\ ~parsed.none
        /\ ~st_error
        /\ StrictlyAscending(parsed.pages)
        /\ Elements(parsed.pages) =
              {p \in 0..(max_pages - 1) : \E t \in Tokens : Names(t, p + 1)}

C7_Witness ==
    /\ ppc = "done"
    /\ selection_str = <<"2", "-", "1", ",", "2">>
    /\ max_pages = 3
    /\ parsed = ListValue(<<1>>)

\* C8: a token that fails integer parsing fails the whole parse with the
\* format error, wherever it sits; a blank expression gives the no-selection
\* signal, and requested pages that are all out of bounds give the empty list.
C8_AllOrNothing ==
    ppc = "done" =>
        /\ Blank => (parsed = NoneValue /\ ~st_error)
        /\ (~Blank /\ SomeTokenFailsInt) => (parsed = NoneValue /\ st_error)
        /\ (~Blank /\ AllTokensValid) => (~parsed.none /\ parsed # NoneValue)

C8_Witness ==
    /\ ppc = "done"
    /\ selection_str = <<"1", ",", "x", ",", "2">>
    /\ max_pages = 3
    /\ parsed = NoneValue
    /\ st_error

====
